---- MODULE Spec2Model ----
(***************************************************************************)
(* density_areas.py: the three Poisson-Wasserstein bracket evaluators      *)
(* (PoissonWasserstein_R2 / _T2 / _S2) and the symplectic-area integrator  *)
(* (area_Omega_S2).                                                        *)
(*                                                                         *)
(* Numbers are exact: a scalar is a Laurent polynomial in pi with rational *)
(* coefficients, so that 1/(4*pi**2) * (2*pi)**2 and 1 are the same value  *)
(* and pi**3 and 1 are not.  A symbolic expression is a polynomial in the  *)
(* two coordinates of the manifold with such scalars as coefficients,      *)
(* possibly times sin(first coordinate).                                   *)
(***************************************************************************)
EXTENDS Integers, Sequences, FiniteSets, TLC

VARIABLES
    \* ---- one call of a bracket evaluator ----
    manifold,       \* "R2" | "T2" | "S2": which evaluator is called
    args,           \* the four caller strings tau, rho, function1, function2
    numerical,      \* the mode flag
    pc,             \* position in the function body
    parsed,         \* the names already rebound to symbolic expressions
    loc,            \* the locals tau, rho, ff, hh, bracket_ff_hh, integrand, integral
    func,           \* the lambdified integrand (numerical branch)
    dom,            \* the bounds each coordinate was integrated over
    trace,          \* the collaborator calls made so far, in order
    result,         \* what the call returned
    \* ---- one call of area_Omega_S2 ----
    OmegaArg,       \* the caller's argument Omega
    I_1, I_2,       \* the caller's intervals
    apc,            \* position of the area call
    depth,          \* the quadrature level now running (1 theta .. 4 t), 0 none
    rem,            \* samples each running quadrature still has to request
    ret,            \* value last returned by integral_theta/_phi/_s
    errs,           \* error estimate each level's quadrature last produced
    degraded,       \* some inner quadrature (theta, phi, s) did not converge
    area            \* what area_Omega_S2 returned

bvars == <<manifold, args, numerical, pc, parsed, loc, func, dom, trace, result>>
avars == <<OmegaArg, I_1, I_2, apc, depth, rem, ret, errs, degraded, area>>
vars == <<bvars, avars>>

\* Largest coefficient and largest degree (per coordinate) of the monomials
\* the caller passes as function1 and function2.
MaxCoef == 1
MaxDeg == 1
\* Most samples one adaptive 1-D quadrature requests of its integrand.
MaxSamples == 2

-----------------------------------------------------------------------------
(* Rational numbers <<n, d>>, d > 0, in lowest terms.                      *)

Abs(n) == IF n < 0 THEN -n ELSE n

RECURSIVE GCD(_, _)
GCD(a, b) == IF b = 0 THEN a ELSE GCD(b, a % b)

RNorm(n, d) ==
    LET g == GCD(Abs(n), d) IN
    IF n = 0 THEN <<0, 1>> ELSE <<n \div g, d \div g>>

RAdd(x, y) == RNorm(x[1] * y[2] + y[1] * x[2], x[2] * y[2])

RMul(x, y) == RNorm(x[1] * y[1], x[2] * y[2])

RInt(n) == <<n, 1>>

-----------------------------------------------------------------------------
(* Symbolic polynomials: a function from the exponents <<i, j, e>> of      *)
(* c1**i * c2**j * pi**e to the non-zero rational coefficient.             *)

EZero == [k \in {} |-> <<0, 1>>]

Term(c, i, j, e) == IF c[1] = 0 THEN EZero ELSE [k \in {<<i, j, e>>} |-> c]

ECoef(p, k) == IF k \in DOMAIN p THEN p[k] ELSE <<0, 1>>

EAdd(p, q) ==
    LET K == DOMAIN p \cup DOMAIN q
        S(k) == RAdd(ECoef(p, k), ECoef(q, k))
    IN  [k \in {x \in K : S(x)[1] # 0} |-> S(k)]

EScale(r, p) == IF r[1] = 0 THEN EZero ELSE [k \in DOMAIN p |-> RMul(r, p[k])]

ENeg(p) == EScale(RInt(-1), p)

ESub(p, q) == EAdd(p, ENeg(q))

EShift(p, d) ==
    [k \in {<<x[1] + d[1], x[2] + d[2], x[3] + d[3]>> : x \in DOMAIN p}
        |-> p[<<k[1] - d[1], k[2] - d[2], k[3] - d[3]>>]]

RECURSIVE EMulAcc(_, _, _)
EMulAcc(K, p, q) ==
    IF K = {} THEN EZero
    ELSE LET k == CHOOSE x \in K : TRUE
         IN  EAdd(EScale(p[k], EShift(q, k)), EMulAcc(K \ {k}, p, q))

EMul(p, q) == EMulAcc(DOMAIN p, p, q)

RECURSIVE EPow(_, _)
EPow(p, n) == IF n = 0 THEN Term(RInt(1), 0, 0, 0) ELSE EMul(p, EPow(p, n - 1))

One == Term(RInt(1), 0, 0, 0)
Pi == Term(RInt(1), 0, 0, 1)
TwoPi == Term(RInt(2), 0, 0, 1)

-----------------------------------------------------------------------------
(* The algebra collaborator on these expressions.                          *)

\* A caller string: a monomial c * c1**i * c2**j written in the manifold's
\* coordinate symbols, or a string the grammar rejects.
Mono(c, i, j) == [ok |-> TRUE, c |-> c, i |-> i, j |-> j]
Malformed == [ok |-> FALSE, c |-> 0, i |-> 0, j |-> 0]

\* sym.sympify on a string it accepts.
Sympify(s) == Term(RInt(s.c), s.i, s.j, 0)

\* sym.diff(p, c_v), v = 1 or 2.
EDiff(p, v) ==
    LET K == {k \in DOMAIN p : k[v] >= 1}
    IN  [k2 \in {[k EXCEPT ![v] = @ - 1] : k \in K}
            |-> LET k == [k2 EXCEPT ![v] = @ + 1] IN RMul(RInt(k[v]), p[k])]

\* An integrand: the polynomial p times sin(c1)**sin.
X(p, s) == [p |-> p, sin |-> s]

\* Integral of theta**n * sin(theta) over [0, k*pi].
RECURSIVE SinMoment(_, _)
SinMoment(n, k) ==
    LET sgn == IF k % 2 = 0 THEN 1 ELSE -1
        lead == Term(RInt((-sgn) * k^n), 0, 0, n)
    IN  IF n = 0 THEN Term(RInt(1 - sgn), 0, 0, 0)
        ELSE IF n = 1 THEN lead
        ELSE ESub(lead, EScale(RInt(n * (n - 1)), SinMoment(n - 2, k)))

\* The k of a bound k*pi.
PiMultiple(b) == IF b = EZero THEN 0 ELSE b[<<0, 0, 1>>][1]

\* Definite integral over c_v in [lo, hi] of the term c * c1**k[1] * c2**k[2]
\* * pi**k[3] (times sin(c1) when sin = 1).
IntegrateTerm(k, c, v, lo, hi, sin) ==
    LET n == k[v]
        rest == Term(c, IF v = 1 THEN 0 ELSE k[1], IF v = 2 THEN 0 ELSE k[2], k[3])
    IN  IF sin = 1 /\ v = 1
        THEN EMul(rest, ESub(SinMoment(n, PiMultiple(hi)),
                             SinMoment(n, PiMultiple(lo))))
        ELSE EMul(EScale(<<1, n + 1>>, rest),
                  ESub(EPow(hi, n + 1), EPow(lo, n + 1)))

RECURSIVE IntegrateAcc(_, _, _, _, _, _)
IntegrateAcc(K, p, v, lo, hi, sin) ==
    IF K = {} THEN EZero
    ELSE LET k == CHOOSE x \in K : TRUE
         IN  EAdd(IntegrateTerm(k, p[k], v, lo, hi, sin),
                  IntegrateAcc(K \ {k}, p, v, lo, hi, sin))

\* sym.integrate(x, (c_v, lo, hi)).
Integrate(x, v, lo, hi) ==
    X(IntegrateAcc(DOMAIN x.p, x.p, v, lo, hi, x.sin), IF v = 1 THEN 0 ELSE x.sin)

\* sym.lambdify([c1, c2], body, 'numpy'): a callable whose first positional
\* argument is c1 and whose second is c2.
Lambdify(symbols, body) == [args |-> symbols, body |-> body]

-----------------------------------------------------------------------------
(* The quadrature collaborator.  Values are the exact integrals.  Whether  *)
(* an adaptive quadrature converges is decided by the collaborator on the  *)
(* floating-point samples, which are not carried here: each call ends in   *)
(* one of its three outcomes, chosen freely.                               *)

\* DblquadDomain with the bounds bound the other way round: a, b to the
\* first argument of func, gfun, hfun to the second.
DblquadDomainSwapped(fn, a, b, g, h) ==
    [v \in {1, 2} |-> IF v = fn.args[1] THEN <<a, b>> ELSE <<g, h>>]

\* scipy.integrate.dblquad(func, a, b, gfun, hfun) integrates func(y, x) for
\* x from a to b and y from gfun(x) to hfun(x): the FIRST positional argument
\* of func is the inner variable, bounded by gfun and hfun, the second the
\* outer one, bounded by a and b.
DblquadDomain(fn, a, b, g, h) ==
    [v \in {1, 2} |-> IF v = fn.args[1] THEN <<g, h>> ELSE <<a, b>>]

Dblquad(fn, a, b, g, h) ==
    LET d == DblquadDomain(fn, a, b, g, h)
        inner == Integrate(fn.body, fn.args[1], d[fn.args[1]][1], d[fn.args[1]][2])
    IN  Integrate(inner, fn.args[2], d[fn.args[2]][1], d[fn.args[2]][2]).p

-----------------------------------------------------------------------------
(* The three evaluators' constants.                                        *)

Manifolds == {"R2", "T2", "S2"}

\* Bracket with the second product added instead of subtracted.
BracketSymmetric(ff, hh, tau) ==
    EMul(EAdd(EMul(EDiff(ff, 1), EDiff(hh, 2)), EMul(EDiff(hh, 1), EDiff(ff, 2))),
         tau)

\* (df/dc1 * dh/dc2 - dh/dc1 * df/dc2) * tau
Bracket(ff, hh, tau) ==
    EMul(ESub(EMul(EDiff(ff, 1), EDiff(hh, 2)), EMul(EDiff(hh, 1), EDiff(ff, 2))),
         tau)

\* integrand = bracket_ff_hh * rho [* sym.sin(theta)]
Integrand(m, bracket, rho) == X(EMul(bracket, rho), IF m = "S2" THEN 1 ELSE 0)

\* NormConst with the sphere's 1/(4*pi) used for the torus as well.
NormConstSphereForTorus(m) ==
    IF m = "R2" THEN One ELSE Term(<<1, 4>>, 0, 0, -1)

\* The constant in front of the integral: none, 1/(4*pi**2), 1/(4*pi).
NormConst(m) ==
    CASE m = "R2" -> One
      [] m = "T2" -> Term(<<1, 4>>, 0, 0, -2)
      [] m = "S2" -> Term(<<1, 4>>, 0, 0, -1)

\* LambdifiedBody without the constant: the numerical branch unnormalised.
LambdifiedBodyNoConstant(m, integrand) == integrand

\* The expression handed to sym.lambdify: integrand for the square,
\* 1/(4*sym.pi**2) * integrand, 1/(4*sym.pi) * integrand for the others.
LambdifiedBody(m, integrand) == X(EMul(NormConst(m), integrand.p), integrand.sin)

\* The bounds of the two symbolic integrations, first coordinate then second.
ExactBounds(m) ==
    CASE m = "R2" -> <<<<EZero, One>>, <<EZero, One>>>>
      [] m = "T2" -> <<<<EZero, TwoPi>>, <<EZero, TwoPi>>>>
      [] m = "S2" -> <<<<EZero, Pi>>, <<EZero, TwoPi>>>>

\* The arguments a, b, gfun, hfun of the dblquad call.
DblquadArgs(m) ==
    CASE m = "R2" -> [a |-> EZero, b |-> One, g |-> EZero, h |-> One]
      [] m = "T2" -> [a |-> EZero, b |-> TwoPi, g |-> EZero, h |-> TwoPi]
      [] m = "S2" -> [a |-> EZero, b |-> TwoPi, g |-> EZero, h |-> Pi]

-----------------------------------------------------------------------------
(* One call PoissonWasserstein_<manifold>(tau, rho, function1, function2,  *)
(* numerical).                                                             *)

FunctionStrings ==
    {Mono(c, i, j) : c \in 1..MaxCoef, i \in 0..MaxDeg, j \in 0..MaxDeg}
        \cup {Malformed}

FactorStrings == {Mono(1, 0, 0), Mono(1, 1, 0), Mono(2, 0, 1), Malformed}

ParseOrder == <<"tau", "rho", "ff", "hh">>

NoResult == [kind |-> "none", value |-> EZero, err |-> 0]

UnsetDom == [v \in {1, 2} |-> <<EZero, EZero>>]

InitBracket ==
    /\ manifold \in Manifolds
    /\ args \in [tau : FactorStrings, rho : FactorStrings,
                 ff : FunctionStrings, hh : FunctionStrings]
    /\ numerical \in BOOLEAN
    /\ pc = "tau"
    /\ parsed = {}
    /\ loc = [tau |-> EZero, rho |-> EZero, ff |-> EZero, hh |-> EZero,
              bracket_ff_hh |-> EZero, integrand |-> X(EZero, 0),
              integral |-> EZero]
    /\ func = Lambdify(<<1, 2>>, X(EZero, 0))
    /\ dom = UnsetDom
    /\ trace = << >>
    /\ result = NoResult

\* AfterParse with function1 parsed before rho.
AfterParseFunctionFirst(name) ==
    CASE name = "tau" -> "ff"
      [] name = "ff" -> "rho"
      [] name = "rho" -> "hh"
      [] name = "hh" -> "bracket"

\* The position after the string `name` is parsed.
AfterParse(name) ==
    CASE name = "tau" -> "rho"
      [] name = "rho" -> "ff"
      [] name = "ff" -> "hh"
      [] name = "hh" -> "bracket"

\* Propagate with a fallback: a failed quadrature falls back to the
\* symbolic integration.
PropagateWithFallback(at) == IF at = "dblquad" THEN "integrate1" ELSE "raised"

\* An exception of a collaborator call at position `at`: no try/except
\* encloses any call, so it leaves the function.
Propagate(at) == "raised"

\* name = sym.sympify(<string>): raises on a string the grammar rejects,
\* and nothing in the function catches it.
Parse(name) ==
    /\ pc = name
    /\ trace' = Append(trace, "sympify")
    /\ IF args[name].ok
       THEN /\ loc' = [loc EXCEPT ![name] = Sympify(args[name])]
            /\ parsed' = parsed \cup {name}
            /\ pc' = AfterParse(name)
       ELSE /\ pc' = Propagate(pc)
            /\ UNCHANGED <<loc, parsed>>
    /\ UNCHANGED <<manifold, args, numerical, func, dom, result, avars>>

ComputeBracket ==
    /\ pc = "bracket"
    /\ loc' = [loc EXCEPT !.bracket_ff_hh = Bracket(loc.ff, loc.hh, loc.tau)]
    /\ trace' = Append(trace, "diff")
    /\ pc' = "integrand"
    /\ UNCHANGED <<manifold, args, numerical, parsed, func, dom, result, avars>>

\* integrand = ...; then the test `if numerical == True`.
ComputeIntegrand ==
    /\ pc = "integrand"
    /\ loc' = [loc EXCEPT !.integrand = Integrand(manifold, loc.bracket_ff_hh, loc.rho)]
    /\ pc' = IF numerical THEN "lambdify" ELSE "integrate1"
    /\ UNCHANGED <<manifold, args, numerical, parsed, func, dom, trace, result, avars>>

\* integrand = sym.lambdify([c1, c2], <constant> * integrand, 'numpy')
LambdifyStep ==
    /\ pc = "lambdify"
    /\ func' = Lambdify(<<1, 2>>, LambdifiedBody(manifold, loc.integrand))
    /\ trace' = Append(trace, "lambdify")
    /\ pc' = "dblquad"
    /\ UNCHANGED <<manifold, args, numerical, parsed, loc, dom, result, avars>>

\* return dblquad(integrand, a, b, gfun, hfun).  The quadrature either
\* converges ("ok"), does not ("warn": scipy issues an IntegrationWarning and
\* still returns its pair), or raises.
DblquadStep ==
    /\ pc = "dblquad"
    /\ trace' = Append(trace, "dblquad")
    /\ \E outcome \in {"ok", "warn", "raise"} :
         LET q == DblquadArgs(manifold) IN
         IF outcome = "raise"
         THEN /\ pc' = Propagate(pc)
              /\ UNCHANGED <<dom, result>>
         ELSE /\ dom' = DblquadDomain(func, q.a, q.b, q.g, q.h)
              /\ result' = [kind |-> "numeric",
                            value |-> Dblquad(func, q.a, q.b, q.g, q.h),
                            err |-> IF outcome = "ok" THEN 0 ELSE 1]
              /\ pc' = "returned"
    /\ UNCHANGED <<manifold, args, numerical, parsed, loc, func, avars>>

\* integrand = sym.integrate(integrand, (c1, lo, hi)); the collaborator may raise.
Integrate1 ==
    /\ pc = "integrate1"
    /\ trace' = Append(trace, "integrate")
    /\ \E outcome \in {"closed", "raise"} :
         LET b == ExactBounds(manifold)[1] IN
         IF outcome = "raise"
         THEN /\ pc' = Propagate(pc)
              /\ UNCHANGED <<loc, dom>>
         ELSE /\ loc' = [loc EXCEPT !.integrand = Integrate(loc.integrand, 1, b[1], b[2])]
              /\ dom' = [dom EXCEPT ![1] = b]
              /\ pc' = "integrate2"
    /\ UNCHANGED <<manifold, args, numerical, parsed, func, result, avars>>

\* integral = sym.integrate(integrand, (c2, lo, hi))
Integrate2 ==
    /\ pc = "integrate2"
    /\ trace' = Append(trace, "integrate")
    /\ \E outcome \in {"closed", "raise"} :
         LET b == ExactBounds(manifold)[2] IN
         IF outcome = "raise"
         THEN /\ pc' = Propagate(pc)
              /\ UNCHANGED <<loc, dom>>
         ELSE /\ loc' = [loc EXCEPT !.integral = Integrate(loc.integrand, 2, b[1], b[2]).p]
              /\ dom' = [dom EXCEPT ![2] = b]
              /\ pc' = "return"
    /\ UNCHANGED <<manifold, args, numerical, parsed, func, result, avars>>

\* return [<constant> *] integral
ReturnExact ==
    /\ pc = "return"
    /\ result' = [kind |-> "exact", value |-> EMul(NormConst(manifold), loc.integral),
                  err |-> 0]
    /\ pc' = "returned"
    /\ UNCHANGED <<manifold, args, numerical, parsed, loc, func, dom, trace, avars>>

ParseTau == Parse("tau")
ParseRho == Parse("rho")
ParseF == Parse("ff")
ParseH == Parse("hh")

NextBracket ==
    \/ ParseTau
    \/ ParseRho
    \/ ParseF
    \/ ParseH
    \/ ComputeBracket
    \/ ComputeIntegrand
    \/ LambdifyStep
    \/ DblquadStep
    \/ Integrate1
    \/ Integrate2
    \/ ReturnExact

\* The whole evaluator as a function of its arguments: the exact result or
\* the numerical value, "raised" on a string the grammar rejects.
PoissonWasserstein(m, a, num) ==
    IF ~(a.tau.ok /\ a.rho.ok /\ a.ff.ok /\ a.hh.ok) THEN "raised"
    ELSE LET g == Integrand(m, Bracket(Sympify(a.ff), Sympify(a.hh), Sympify(a.tau)),
                            Sympify(a.rho))
             q == DblquadArgs(m)
             b == ExactBounds(m)
         IN  IF num
             THEN Dblquad(Lambdify(<<1, 2>>, LambdifiedBody(m, g)), q.a, q.b, q.g, q.h)
             ELSE EMul(NormConst(m),
                       Integrate(Integrate(g, 1, b[1][1], b[1][2]), 2, b[2][1], b[2][2]).p)


-----------------------------------------------------------------------------
(* area_Omega_S2(Omega, I_1, I_2).                                         *)

\* A field of (theta, phi, s, t): v * wt(theta) * wp(phi), constant in s, t.
Field(v, wt, wp) == [v |-> v, wt |-> wt, wp |-> wp]

\* The fields a caller may pass: 1, sin(theta)*cos(phi), sin(theta), 2.
Fields ==
    {Field(One, "one", "one"), Field(One, "sin", "cos"),
     Field(One, "sin", "one"), Field(EAdd(One, One), "one", "one")}

Intervals == {<<EZero, Pi>>, <<EZero, TwoPi>>, <<One, EAdd(One, One)>>}

\* def Omega(theta, phi, s, t): return np.sin(theta) * np.cos(phi)
\* The inner def rebinds the name Omega: the parameter is not read again.
OmegaLocal(argument) == Field(One, "sin", "cos")

\* Integral of a weight over [lo, hi], both multiples of pi for sin and cos.
WeightIntegral(w, lo, hi) ==
    CASE w = "one" -> ESub(hi, lo)
      [] w = "sin" -> ESub(SinMoment(0, PiMultiple(hi)), SinMoment(0, PiMultiple(lo)))
      [] w = "cos" -> EZero

\* The value of scipy.integrate.quad(f, lo, hi, args=...): the integral of f
\* over its first remaining argument (theta, then phi, then s, then t).
QuadValue(f, level, lo, hi) ==
    CASE level = 1 -> Field(EMul(f.v, WeightIntegral(f.wt, lo, hi)), "one", f.wp)
      [] level = 2 -> Field(EMul(f.v, WeightIntegral(f.wp, lo, hi)), f.wt, "one")
      [] OTHER -> Field(EMul(f.v, ESub(hi, lo)), f.wt, f.wp)

\* The bounds of the four quadratures: theta, phi, s, t.
QuadBounds(level, i1, i2) ==
    CASE level = 1 -> <<EZero, Pi>>
      [] level = 2 -> <<EZero, TwoPi>>
      [] level = 3 -> i1
      [] level = 4 -> i2

\* What the level's quadrature integrates: Omega, integral_theta,
\* integral_phi, and lambda t: (1/(4*np.pi)) * integral_s(t).
QuadIntegrand(level, omega, inner) ==
    CASE level = 1 -> omega
      [] level = 4 -> Field(EMul(Term(<<1, 4>>, 0, 0, -1), inner[3].v),
                            inner[3].wt, inner[3].wp)
      [] OTHER -> inner[level - 1]

\* CallsIntegrand with a cache: the integrand is called only while no value
\* of it is remembered.
CallsIntegrandUnlessCached(level) == ret[level - 1] = Field(EZero, "one", "one")

\* Every sample a quadrature requests calls its integrand, an ordinary
\* function, which runs the next quadrature down: nothing is remembered.
CallsIntegrand(level) == TRUE

\* area = quad(...): the pair of the t-quadrature; the inner calls keep [0].
ReturnedError(es) == es[4]

Levels == 1..4

NoArea == [value |-> EZero, err |-> 0]

InitArea ==
    /\ OmegaArg \in Fields
    /\ I_1 \in Intervals
    /\ I_2 \in Intervals
    /\ apc = "call"
    /\ depth = 0
    /\ rem = [l \in Levels |-> 0]
    /\ ret = [l \in 1..3 |-> Field(EZero, "one", "one")]
    /\ errs = [l \in Levels |-> 0]
    /\ degraded = FALSE
    /\ area = NoArea

\* area = quad(lambda t: ..., I_2[0], I_2[1]): the t-quadrature starts.
CallArea ==
    /\ apc = "call"
    /\ apc' = "running"
    /\ depth' = 4
    /\ \E n \in 1..MaxSamples : rem' = [rem EXCEPT ![4] = n]
    /\ UNCHANGED <<OmegaArg, I_1, I_2, ret, errs, degraded, area, bvars>>

\* The running quadrature of level 2..4 requests one sample of its
\* integrand, which starts the quadrature one level down.
Sample ==
    /\ apc = "running"
    /\ depth \in 2..4
    /\ rem[depth] > 0
    /\ IF CallsIntegrand(depth)
       THEN /\ depth' = depth - 1
            /\ \E n \in 1..MaxSamples :
                 rem' = [rem EXCEPT ![depth] = @ - 1, ![depth - 1] = n]
       ELSE /\ rem' = [rem EXCEPT ![depth] = @ - 1]
            /\ UNCHANGED depth
    /\ UNCHANGED <<OmegaArg, I_1, I_2, apc, ret, errs, degraded, area, bvars>>

\* The theta-quadrature requests one sample: one evaluation of Omega.
EvalOmega ==
    /\ apc = "running"
    /\ depth = 1
    /\ rem[1] > 0
    /\ rem' = [rem EXCEPT ![1] = @ - 1]
    /\ UNCHANGED <<OmegaArg, I_1, I_2, apc, depth, ret, errs, degraded, area, bvars>>

\* The running quadrature has its samples and ends: it converged ("ok"), it
\* did not ("warn": quad issues an IntegrationWarning and returns its pair
\* all the same), or it raised, which nothing in area_Omega_S2 catches.
FinishQuad ==
    /\ apc = "running"
    /\ depth \in Levels
    /\ rem[depth] = 0
    /\ \E outcome \in {"ok", "warn", "raise"} :
         LET b == QuadBounds(depth, I_1, I_2)
             q == QuadValue(QuadIntegrand(depth, OmegaLocal(OmegaArg), ret),
                            depth, b[1], b[2])
             es == [errs EXCEPT ![depth] = IF outcome = "ok" THEN 0 ELSE 1]
         IN  IF outcome = "raise"
             THEN /\ apc' = "raised"
                  /\ depth' = 0
                  /\ UNCHANGED <<ret, errs, degraded, area>>
             ELSE /\ errs' = es
                  /\ degraded' = (degraded \/ (outcome = "warn" /\ depth < 4))
                  /\ IF depth = 4
                     THEN /\ area' = [value |-> q.v, err |-> ReturnedError(es)]
                          /\ apc' = "returned"
                          /\ depth' = 0
                          /\ UNCHANGED ret
                     ELSE /\ ret' = [ret EXCEPT ![depth] = q]
                          /\ depth' = depth + 1
                          /\ UNCHANGED <<apc, area>>
    /\ UNCHANGED <<OmegaArg, I_1, I_2, rem, bvars>>

NextArea ==
    \/ CallArea
    \/ Sample
    \/ EvalOmega
    \/ FinishQuad

\* The nested integral (3) of a field:
\* 1/(4*pi) * int_{I_2} int_{I_1} int_0^{2*pi} int_0^{pi} field.
NestedIntegral(field, i1, i2) ==
    LET a == QuadValue(field, 1, EZero, Pi)
        b == QuadValue(a, 2, EZero, TwoPi)
        c == QuadValue(b, 3, i1[1], i1[2])
    IN  EMul(Term(<<1, 4>>, 0, 0, -1), QuadValue(c, 4, i2[1], i2[2]).v)

-----------------------------------------------------------------------------
(* The two specifications: a bracket-evaluator call, an area call.         *)

IdleBracket ==
    /\ manifold = "R2"
    /\ args = [tau |-> Malformed, rho |-> Malformed, ff |-> Malformed,
               hh |-> Malformed]
    /\ numerical = FALSE
    /\ pc = "idle"
    /\ parsed = {}
    /\ loc = [tau |-> EZero, rho |-> EZero, ff |-> EZero, hh |-> EZero,
              bracket_ff_hh |-> EZero, integrand |-> X(EZero, 0),
              integral |-> EZero]
    /\ func = Lambdify(<<1, 2>>, X(EZero, 0))
    /\ dom = UnsetDom
    /\ trace = << >>
    /\ result = NoResult

IdleArea ==
    /\ OmegaArg = Field(One, "one", "one")
    /\ I_1 = <<EZero, Pi>>
    /\ I_2 = <<EZero, TwoPi>>
    /\ apc = "idle"
    /\ depth = 0
    /\ rem = [l \in Levels |-> 0]
    /\ ret = [l \in 1..3 |-> Field(EZero, "one", "one")]
    /\ errs = [l \in Levels |-> 0]
    /\ degraded = FALSE
    /\ area = NoArea

Init == InitBracket /\ IdleArea
Next == NextBracket
Spec == Init /\ [][Next]_vars

InitAreaCall == IdleBracket /\ InitArea
SpecArea == InitAreaCall /\ [][NextArea]_vars

-----------------------------------------------------------------------------
(* Properties of the bracket evaluators (specification Spec).              *)

Count(seq, x) == Cardinality({i \in DOMAIN seq : seq[i] = x})

Swapped(a) == [a EXCEPT !.ff = a.hh, !.hh = a.ff]

\* C3: for every manifold, tau, rho and valid f, h, the call with (f, h)
\* swapped for (h, f) returns the negated result, in exact mode and (for the
\* value component) in numerical mode.
C3_Antisymmetry ==
    pc = "returned" =>
        result.value = ENeg(PoissonWasserstein(manifold, Swapped(args), numerical))

C3_Witness ==
    /\ pc = "returned"
    /\ manifold = "S2"
    /\ numerical
    /\ result.value # EZero
    /\ args.ff # args.hh

C4_Inputs ==
    [tau |-> Mono(1, 0, 0), rho |-> Mono(1, 0, 0), ff |-> Mono(1, 1, 0),
     hh |-> Mono(1, 0, 1)]

\* C4: with tau = "1", rho = "1", f the first coordinate and h the second,
\* the exact-mode bracket is 1 on the square and 1 on the torus, where
\* 1/(4*pi**2) cancels the domain area (2*pi)**2.
C4_UnitBracket ==
    (pc = "returned" /\ manifold \in {"R2", "T2"} /\ ~numerical /\ args = C4_Inputs)
        => (result.kind = "exact" /\ result.value = One)

C4_Witness ==
    /\ pc = "returned"
    /\ manifold = "T2"
    /\ ~numerical
    /\ args = C4_Inputs
    /\ loc.integral = EMul(TwoPi, TwoPi)

C7_ParseFirst ==
    LET n == Cardinality(parsed)
        past == {"bracket", "integrand", "lambdify", "dblquad", "integrate1",
                 "integrate2", "return", "returned"}
    IN  /\ parsed = {ParseOrder[i] : i \in 1..n}
        /\ (\E i \in DOMAIN trace : trace[i] # "sympify") => n = 4
        /\ (\E i \in 1..4 : ~args[ParseOrder[i]].ok) => pc \notin past
        /\ (pc = "raised" /\ n < 4) =>
              /\ ~args[ParseOrder[n + 1]].ok
              /\ trace = [i \in 1..(n + 1) |-> "sympify"]
              /\ loc.bracket_ff_hh = EZero
              /\ result = NoResult

C7_Witness ==
    /\ pc = "raised"
    /\ parsed = {"tau"}
    /\ ~args.rho.ok
    /\ args.ff.ok
    /\ ~args.hh.ok
    /\ Len(trace) = 2

\* C8: in the sphere evaluator both branches integrate theta over [0, pi] and
\* phi over [0, 2*pi]: in the numerical branch the first argument of the
\* lambdified integrand (theta) is the one bounded by 0 and pi and the second
\* (phi) the one bounded by 0 and 2*pi, as in the symbolic integration.
C8_SphereBounds ==
    (pc = "returned" /\ manifold = "S2") =>
        /\ dom[1] = <<EZero, Pi>>
        /\ dom[2] = <<EZero, TwoPi>>
        /\ dom = [v \in {1, 2} |-> ExactBounds("S2")[v]]
        /\ (numerical => func.args = <<1, 2>>)

C8_Witness ==
    /\ pc = "returned"
    /\ manifold = "S2"
    /\ numerical
    /\ func.body.sin = 1
    /\ dom[1] = <<EZero, Pi>>

\* C9: for every manifold the two modes integrate the same integrand with the
\* same overall factor, the constant applied once in each (after integration
\* in exact mode, before quadrature in numerical mode): the value a call
\* returns is the value the other mode gives for the same arguments.
C9_ModesAgree ==
    pc = "returned" =>
        /\ result.value = PoissonWasserstein(manifold, args, ~numerical)
        /\ (numerical => func.body = LambdifiedBody(manifold, loc.integrand))
        /\ (numerical => loc.integrand.sin = IF manifold = "S2" THEN 1 ELSE 0)

C9_Witness ==
    /\ pc = "returned"
    /\ numerical
    /\ manifold = "T2"
    /\ result.value # EZero
    /\ result.value = PoissonWasserstein(manifold, args, FALSE)

-----------------------------------------------------------------------------
(* Properties of the area integrator (specification SpecArea).             *)

\* C1: the integrator integrates the field the caller supplies: the value
\* returned is the nested integral of that field over I_1 and I_2.
C1_IntegratesCallerField ==
    apc = "returned" => area.value = NestedIntegral(OmegaArg, I_1, I_2)

\* C2: for the constant field 1, I_1 = [0, pi] and I_2 = [0, 2*pi] (every
\* quadrature converging) the call returns the value 1 with an error
\* estimate of about 0.
C2_ConstantFieldGivesOne ==
    (/\ apc = "returned"
     /\ OmegaArg = Field(One, "one", "one")
     /\ I_1 = <<EZero, Pi>>
     /\ I_2 = <<EZero, TwoPi>>
     /\ ~degraded
     /\ errs[4] = 0)
        => (area.value = One /\ area.err = 0)

\* C5: when any of the four nested quadratures fails to converge the call
\* aborts with an exception: no call returns a pair while a quadrature of it
\* did not converge.
C5_NonConvergenceAborts ==
    apc = "returned" => (~degraded /\ errs[4] = 0)

\* C10: the four quadratures are nested theta (innermost), phi, s, t
\* (outermost): every sample a quadrature of phi, s or t requests starts a
\* new quadrature one level down, which runs to its end before the outer one
\* goes on, with nothing reused from earlier samples; Omega is sampled by the
\* theta-quadrature only, over [0, pi] (integral_theta is 2*cos(phi)), and
\* phi runs over [0, 2*pi] (integral_phi is 0); and the error estimate
\* returned is the one of the t-quadrature, whatever the inner ones were.
C10_Nesting ==
    [][/\ \A l \in 2..4 :
            rem'[l] < rem[l] => (depth = l /\ depth' = l - 1 /\ rem'[l - 1] >= 1)
       /\ (rem'[1] < rem[1] => (depth = 1 /\ depth' = 1))
       /\ \A l \in 1..3 :
            (depth = l /\ depth' \notin {l, l - 1}) => (rem[l] = 0 /\ depth' \in {l + 1, 0})
       /\ (depth' # 0 /\ depth' < depth) => depth' = depth - 1
       /\ (depth = 1 /\ depth' = 2) => ret'[1] = Field(EAdd(One, One), "one", "cos")
       /\ (depth = 2 /\ depth' = 3) => ret'[2] = Field(EZero, "one", "one")
       /\ (apc' = "returned" /\ apc # "returned") =>
              /\ depth = 4 /\ rem[4] = 0
              /\ area'.err = errs'[4]
              /\ area'.value = NestedIntegral(OmegaLocal(OmegaArg), I_1, I_2)
      ]_vars

C10_Witness ==
    /\ apc = "returned"
    /\ degraded
    /\ errs[1] = 1
    /\ errs[4] = 0
    /\ area.err = 0

====
